---- MODULE Spec2Model ----
(***************************************************************************)
(* A model of the libei input backend of smithay                           *)
(* (src/backend/libei): the hand-written handshake engine                  *)
(* (handshake.rs, HandshakeState::handle_request), the sender session      *)
(* (mod.rs, SenderState::new) and the calloop event source                 *)
(* (mod.rs, EiInput::process_events) with its request translation.         *)
(*                                                                         *)
(* One connection is modelled.  The peer's requests are chosen when the    *)
(* adapter reads them; a call of process_events drains a batch of at most  *)
(* MaxBatch events.                                                        *)
(***************************************************************************)
EXTENDS Integers, Sequences, FiniteSets, TLC

(***************************************************************************)
(* Bounds of the model.                                                    *)
(***************************************************************************)
\* largest version number a peer puts in a request
MaxVersion == 2
\* number of events one call of process_events drains at most
MaxBatch == 2
\* devices one connection holds at most (a Bind that would exceed it is not sent)
MaxDevices == 2
\* Bind bitmasks range over 0 .. 2^MaskBits - 1
MaskBits == 8
MaxKeymapLen == 2
MaxConnections == 2
MaxScroll == 1
MaxFinish == 2

(***************************************************************************)
(* Option<T>: None is the empty tuple, Some(x) the one-element tuple.      *)
(***************************************************************************)
None == <<>>
Some(x) == <<x>>
IsSome(o) == o /= None
Unwrap(o) == o[1]

Min(a, b) == IF a <= b THEN a ELSE b

(***************************************************************************)
(* handshake.rs                                                            *)
(***************************************************************************)
\* static SERVER_INTERFACES: interface name -> highest version supported
SERVER_INTERFACES ==
    [i \in {"ei_callback", "ei_connection", "ei_seat", "ei_device",
            "ei_pingpong", "ei_keyboard", "ei_pointer",
            "ei_pointer_absolute", "ei_button", "ei_scroll",
            "ei_touchscreen"} |-> 1]

\* the interfaces Finish requires
MandatoryInterfaces == {"ei_connection", "ei_pingpong", "ei_callback"}

\* a HashMap as a function on its key set
EmptyMap == [k \in {} |-> 0]
MapInsert(m, k, v) == [x \in (DOMAIN m) \cup {k} |-> IF x = k THEN v ELSE m[x]]

\* the version agreed for one InterfaceVersion request: version.min(*server_version)
\* (a faulty variant: the requested version is taken as it is)
NegotiateMutNoMin(version, server_version) == version
Negotiate(version, server_version) == Min(version, server_version)

\* HandshakeState::new: the fields of a fresh handshake state
NewHandshakeState ==
    [context_type |-> None, name |-> None, negotiated_interfaces |-> EmptyMap]

\* the messages HandshakeState::new sends: its own handshake version, flushed
\* (a faulty variant: the version is left unflushed)
NewHandshakeSentMutNoFlush == << [msg |-> "handshake_version", version |-> 1] >>
NewHandshakeSent == << [msg |-> "handshake_version", version |-> 1], [msg |-> "flush"] >>

\* the outcome of one call of handle_request: the state it leaves, its result,
\* and the messages it sent on the handshake object
Outcome(st, res, out) == [state |-> st, result |-> res, sent |-> out]

\* the arm of handle_request for ContextType
\* (a faulty variant: the second ContextType overwrites the first)
HandleContextTypeMutOverwrite(st, request) ==
    Outcome([st EXCEPT !.context_type = Some(request.context_type)],
            IF IsSome(st.context_type) THEN "Disconnect" ELSE "Continue", <<>>)
HandleContextType(st, request) ==
    IF IsSome(st.context_type)
    THEN Outcome(st, "Disconnect", <<>>)
    ELSE Outcome([st EXCEPT !.context_type = Some(request.context_type)], "Continue", <<>>)

\* the arm of handle_request for Name
\* (a faulty variant: the second Name overwrites the first)
HandleNameMutOverwrite(st, request) ==
    Outcome([st EXCEPT !.name = Some(request.name)],
            IF IsSome(st.name) THEN "Disconnect" ELSE "Continue", <<>>)
HandleName(st, request) ==
    IF IsSome(st.name)
    THEN Outcome(st, "Disconnect", <<>>)
    ELSE Outcome([st EXCEPT !.name = Some(request.name)], "Continue", <<>>)

\* the arm of handle_request for InterfaceVersion
\* (a faulty variant: a name outside the table is inserted too)
HandleInterfaceVersionMutInsertAny(st, request) ==
    Outcome([st EXCEPT !.negotiated_interfaces =
                 MapInsert(@, request.name, Negotiate(request.version, 1))],
            "Continue", <<>>)
HandleInterfaceVersion(st, request) ==
    IF request.name \in DOMAIN SERVER_INTERFACES
    THEN Outcome([st EXCEPT !.negotiated_interfaces =
                      MapInsert(@, request.name,
                                Negotiate(request.version, SERVER_INTERFACES[request.name]))],
                 "Continue", <<>>)
    ELSE Outcome(st, "Continue", <<>>)

\* the interface_version messages Finish echoes, one per entry of the map; the
\* map is iterated in an unspecified order, so they are kept as a set
\* (a faulty variant: nothing is echoed when a mandatory interface is missing)
FinishEchoMutAfterCheck(st) ==
    [msg |-> "interface_versions",
     entries |-> IF \E m \in MandatoryInterfaces : m \notin DOMAIN st.negotiated_interfaces
                 THEN {}
                 ELSE {<<i, st.negotiated_interfaces[i]>> : i \in DOMAIN st.negotiated_interfaces}]
FinishEcho(st) ==
    [msg |-> "interface_versions",
     entries |-> {<<i, st.negotiated_interfaces[i]>> : i \in DOMAIN st.negotiated_interfaces}]

\* the mandatory-set check of Finish
\* (a faulty variant: Finish is refused only if all three are missing)
MissingMandatoryMutAll(st) ==
    \A i \in MandatoryInterfaces : i \notin DOMAIN st.negotiated_interfaces
MissingMandatory(st) ==
    \E i \in MandatoryInterfaces : i \notin DOMAIN st.negotiated_interfaces

\* the arm of handle_request for Finish.  The Receiver role reaches todo!(),
\* which panics: the result "Panic" stands for the unwinding call.
\* (a faulty variant: the Receiver role is refused as an unset role is)
HandleFinishMutReceiverRefused(st) ==
    IF MissingMandatory(st)
    THEN Outcome(st, "Disconnect", << FinishEcho(st) >>)
    ELSE LET out == << FinishEcho(st), [msg |-> "connection", id |-> 0, version |-> 1] >>
         IN  IF st.context_type = Some("Sender") THEN Outcome(st, "Sender", out)
             ELSE Outcome(st, "Disconnect", out)
\* (a faulty variant: an unset role is taken for Sender)
HandleFinishMutUnsetIsSender(st) ==
    IF MissingMandatory(st)
    THEN Outcome(st, "Disconnect", << FinishEcho(st) >>)
    ELSE LET out == << FinishEcho(st), [msg |-> "connection", id |-> 0, version |-> 1] >>
         IN  IF st.context_type = Some("Receiver") THEN Outcome(st, "Panic", out)
             ELSE Outcome(st, "Sender", out)
HandleFinish(st) ==
    IF MissingMandatory(st)
    THEN Outcome(st, "Disconnect", << FinishEcho(st) >>)
    ELSE LET out == << FinishEcho(st), [msg |-> "connection", id |-> 0, version |-> 1] >>
         IN  IF st.context_type = Some("Sender") THEN Outcome(st, "Sender", out)
             ELSE IF st.context_type = Some("Receiver") THEN Outcome(st, "Panic", out)
             ELSE Outcome(st, "Disconnect", out)

\* HandshakeState::handle_request
\* (a faulty variant: the InterfaceVersion that completes the mandatory
\* interfaces is taken for the Finish as well)
handle_requestMutFinishOnVersion(st, request) ==
    CASE request.type = "HandshakeVersion" -> Outcome(st, "Continue", <<>>)
      [] request.type = "ContextType"      -> HandleContextType(st, request)
      [] request.type = "Name"             -> HandleName(st, request)
      [] request.type = "InterfaceVersion" ->
             LET o == HandleInterfaceVersion(st, request) IN
             IF MissingMandatory(o.state) THEN o ELSE HandleFinish(o.state)
      [] request.type = "Finish"           -> HandleFinish(st)
      [] OTHER                             -> Outcome(st, "Continue", <<>>)
\* (a faulty variant: a HandshakeVersion other than 1 is refused)
handle_requestMutVersionChecked(st, request) ==
    CASE request.type = "HandshakeVersion" ->
             Outcome(st, IF request.version = 1 THEN "Continue" ELSE "Disconnect", <<>>)
      [] request.type = "ContextType"      -> HandleContextType(st, request)
      [] request.type = "Name"             -> HandleName(st, request)
      [] request.type = "InterfaceVersion" -> HandleInterfaceVersion(st, request)
      [] request.type = "Finish"           -> HandleFinish(st)
      [] OTHER                             -> Outcome(st, "Continue", <<>>)
handle_request(st, request) ==
    CASE request.type = "HandshakeVersion" -> Outcome(st, "Continue", <<>>)
      [] request.type = "ContextType"      -> HandleContextType(st, request)
      [] request.type = "Name"             -> HandleName(st, request)
      [] request.type = "InterfaceVersion" -> HandleInterfaceVersion(st, request)
      [] request.type = "Finish"           -> HandleFinish(st)
      [] OTHER                             -> Outcome(st, "Continue", <<>>)

(***************************************************************************)
(* mod.rs: capabilities and the sender session                             *)
(***************************************************************************)
\* reis' DeviceCapability, cast "as u64" by the Bind handler: the enum's
\* discriminants follow the order in which add_seat is given the capabilities
DeviceCapability ==
    [Pointer |-> 0, PointerAbsolute |-> 1, Keyboard |-> 2,
     Touch |-> 3, Scroll |-> 4, Button |-> 5]

Capabilities == DOMAIN DeviceCapability

Pow2(n) == 2 ^ n

\* a & b on naturals
RECURSIVE BitAnd(_, _)
BitAnd(a, b) ==
    IF a = 0 \/ b = 0 THEN 0
    ELSE (a % 2) * (b % 2) + 2 * BitAnd(a \div 2, b \div 2)

\* 2 << DeviceCapability::X as u64
CapBit(cap) == 2 * Pow2(DeviceCapability[cap])

\* the mask of the defined capability range, 0x7e
ValidCapabilities == 126

\* capabilities & 0x7e != capabilities
\* (a faulty variant: every bitmask is accepted)
InvalidCapabilitiesMutAcceptAll(capabilities) == FALSE
\* (a faulty variant: bit 0 passes, the mask is 0x7f)
InvalidCapabilitiesMutBitZero(capabilities) ==
    BitAnd(capabilities, ValidCapabilities + 1) /= capabilities
InvalidCapabilities(capabilities) ==
    BitAnd(capabilities, ValidCapabilities) /= capabilities

\* the interface has_interface is asked for before the device of a capability
\* is added in the Bind handler
CapInterface ==
    [Keyboard |-> "ei_keyboard", Pointer |-> "ei_pointer",
     Touch |-> "ei_touchscreen", PointerAbsolute |-> "ei_pointer_absolute"]

\* the name the Bind handler gives the device of a capability
DeviceName ==
    [Keyboard |-> "keyboard", Pointer |-> "pointer",
     Touch |-> "touch", PointerAbsolute |-> "pointer-abs"]

\* the order in which the Bind handler looks at the capabilities it has a
\* device for: keyboard, pointer, touch, pointer-abs
BindOrder == << "Keyboard", "Pointer", "Touch", "PointerAbsolute" >>

\* connection.has_interface(name): the interface was negotiated in the handshake
has_interface(ifaces, i) == i \in ifaces

\* one guard of the Bind handler:
\* connection.has_interface(..) && capabilities & 2 << DeviceCapability::X as u64 != 0
\* (a faulty variant: the interface is not asked for)
BindCreatesMutNoInterfaceCheck(ifaces, capabilities, cap) ==
    BitAnd(capabilities, CapBit(cap)) /= 0
BindCreates(ifaces, capabilities, cap) ==
    /\ has_interface(ifaces, CapInterface[cap])
    /\ BitAnd(capabilities, CapBit(cap)) /= 0

\* seat.add_device(Some(name), DeviceType::Virtual, &[capability], ..): the
\* keyboard's closure sends the keymap, the others send nothing
NewDevice(cap) ==
    [name |-> DeviceName[cap], device_type |-> "Virtual", capabilities |-> {cap}]

\* the devices one valid Bind adds, in the order of the handler
RECURSIVE BindDevicesFrom(_, _, _)
BindDevicesFrom(ifaces, capabilities, k) ==
    IF k > Len(BindOrder) THEN <<>>
    ELSE (IF BindCreates(ifaces, capabilities, BindOrder[k])
          THEN << NewDevice(BindOrder[k]) >> ELSE <<>>)
         \o BindDevicesFrom(ifaces, capabilities, k + 1)

BindDevices(ifaces, capabilities) == BindDevicesFrom(ifaces, capabilities, 1)

\* keymap.get_as_string(xkb::KEYMAP_FORMAT_TEXT_V1) of the keymap compiled from
\* XkbConfig::default(): the text of a keymap, never empty; its bytes stand
\* for themselves as 0
KeymapTexts == UNION { [1 .. n -> {0}] : n \in 1 .. MaxKeymapLen }

\* SealedFile::with_data(name, data): a sealed memory region that holds data
SealedFileWithData(name, data) == [name |-> name, data |-> data, sealed |-> TRUE]

\* keymap_text.len() as _: the size the keymap message declares (a u32; the
\* texts here are far shorter than 2^32 bytes)
\* (a faulty variant: the terminating NUL is counted in)
KeymapSizeMutCountNul(keymap_text) == Len(keymap_text) + 1
KeymapSize(keymap_text) == Len(keymap_text)

\* keyboard.keymap(KeymapType::Xkb, keymap_text.len() as _, file.as_fd())
KeymapMessage(keymap_text, device) ==
    [msg |-> "keymap", keymap_type |-> "Xkb", size |-> KeymapSize(keymap_text),
     fd |-> SealedFileWithData("eis-keymap", keymap_text), device |-> device]

\* the messages one valid Bind sends: a keymap for each keyboard it adds
\* (device is the index the new device gets in the seat's devices)
\* (a faulty variant: the closure of the keyboard sends nothing)
BindSentFromMutNoKeymap(new, base, k, keymap_text) == <<>>
RECURSIVE BindSentFrom(_, _, _, _)
BindSentFrom(new, base, k, keymap_text) ==
    IF k > Len(new) THEN <<>>
    ELSE (IF "Keyboard" \in new[k].capabilities
          THEN << KeymapMessage(keymap_text, base + k) >>
          ELSE <<>>)
         \o BindSentFrom(new, base, k + 1, keymap_text)

\* how many of the messages msgs are a keymap for the device
KeymapsFor(msgs, device) ==
    Cardinality({ i \in DOMAIN msgs : msgs[i].msg = "keymap" /\ msgs[i].device = device })

\* disconnected(connection, reason, explaination): the message, then a flush
disconnected(reason, explaination) ==
    << [msg |-> "disconnected", reason |-> reason, explaination |-> explaination],
       [msg |-> "flush"] >>

\* SenderState::new: the seat it announces on the connection
\* (a faulty variant: done is sent before the last two capabilities)
SenderStateSentMutEarlyDone ==
    << [msg |-> "seat", version |-> 1],
       [msg |-> "name", name |-> "default"],
       [msg |-> "capability", mask |-> 2, interface |-> "ei_pointer"],
       [msg |-> "capability", mask |-> 4, interface |-> "ei_pointer_absolute"],
       [msg |-> "capability", mask |-> 8, interface |-> "ei_button"],
       [msg |-> "capability", mask |-> 16, interface |-> "ei_scroll"],
       [msg |-> "done"],
       [msg |-> "capability", mask |-> 32, interface |-> "ei_keyboard"],
       [msg |-> "capability", mask |-> 64, interface |-> "ei_touchscreen"] >>
SenderStateSent ==
    << [msg |-> "seat", version |-> 1],
       [msg |-> "name", name |-> "default"],
       [msg |-> "capability", mask |-> 2, interface |-> "ei_pointer"],
       [msg |-> "capability", mask |-> 4, interface |-> "ei_pointer_absolute"],
       [msg |-> "capability", mask |-> 8, interface |-> "ei_button"],
       [msg |-> "capability", mask |-> 16, interface |-> "ei_scroll"],
       [msg |-> "capability", mask |-> 32, interface |-> "ei_keyboard"],
       [msg |-> "capability", mask |-> 64, interface |-> "ei_touchscreen"],
       [msg |-> "done"] >>

\* SenderState::new: the fields of the new session
NewSenderState(n) == [name |-> n, last_serial |-> 0]

\* the seat the Connected arm adds: connection.add_seat(Some("default"), &[..])
ConnectedSeat ==
    [name |-> "default",
     capabilities |-> << "Pointer", "PointerAbsolute", "Keyboard",
                         "Touch", "Scroll", "Button" >>]

(***************************************************************************)
(* mod.rs: the request translator                                          *)
(***************************************************************************)
\* A u32 is kept as two 16-bit halves, [hi, lo], of value hi * 2^16 + lo, so
\* that the whole 32-bit range and its carry are within reach.
HalfWord == 65536

\* the u32 of a small number
U32(n) == [hi |-> n \div HalfWord, lo |-> n % HalfWord]

\* u32::MAX - n
U32FromMax(n) == [hi |-> HalfWord - 1, lo |-> HalfWord - 1 - n]

\* a + n in u32 as a build without overflow checks computes it, n a small number
U32WrappingAdd(a, n) ==
    [hi |-> (a.hi + (a.lo + n) \div HalfWord) % HalfWord, lo |-> (a.lo + n) % HalfWord]

\* whether a + n is beyond u32::MAX: a build with overflow checks panics there
U32Overflows(a, n) == a.hi + (a.lo + n) \div HalfWord >= HalfWord

\* impl KeyboardKeyEvent for request::KeyboardKey
\* (a faulty variant: the evdev offset is left out)
key_codeMutNoOffset(event) == event.key
key_code(event) == U32WrappingAdd(event.key, 8)

\* whether the addition of key_code leaves the range of u32
key_code_overflows(event) == U32Overflows(event.key, 8)

key_state(event) == IF event.state = "Press" THEN "Pressed" ELSE "Released"

key_count(event) == 1

\* the InputEvent variant convert_request wraps each request in
EventVariant ==
    [KeyboardKey |-> "Keyboard", PointerMotion |-> "PointerMotion",
     PointerMotionAbsolute |-> "PointerMotionAbsolute", Button |-> "PointerButton",
     ScrollDelta |-> "PointerAxis", ScrollStop |-> "PointerAxis",
     ScrollCancel |-> "PointerAxis", ScrollDiscrete |-> "PointerAxis",
     TouchDown |-> "TouchDown", TouchUp |-> "TouchUp", TouchMotion |-> "TouchMotion"]

\* convert_request: Some(InputEvent) for the requests that carry input, None for
\* Frame, Disconnect, Bind, DeviceStartEmulating and DeviceStopEmulating
\* (a faulty variant: every request becomes an event)
convert_requestMutFrameEvent(request) ==
    Some([variant |-> IF request.type \in DOMAIN EventVariant
                      THEN EventVariant[request.type] ELSE "Special",
          event |-> request])
\* (a faulty variant: ScrollStop is dropped as Frame is)
convert_requestMutStopDropped(request) ==
    IF request.type \in DOMAIN EventVariant \ {"ScrollStop"}
    THEN Some([variant |-> EventVariant[request.type], event |-> request])
    ELSE None
convert_request(request) ==
    IF request.type \in DOMAIN EventVariant
    THEN Some([variant |-> EventVariant[request.type], event |-> request])
    ELSE None

\* An f64 is kept as a whole number of hundredths; the f32 and i32 fields of
\* the scroll requests are whole numbers, and `.into()` widens them exactly.
Hundredths == 100

f64_from(n) == n * Hundredths

\* the literals 0.01 of the Cancel arm and 0.0 of the Stop arm, in hundredths
CancelAmount == 1
StopAmount == 0

Axes == {"Horizontal", "Vertical"}

\* impl PointerAxisEvent for ScrollEvent: amount
\* (a faulty variant: a zero delta is reported as 0.0)
amountMutZeroDelta(event, axis) ==
    CASE event.type = "ScrollDelta" ->
             IF axis = "Horizontal" THEN Some(f64_from(event.dx))
             ELSE Some(f64_from(event.dy))
      [] event.type = "ScrollCancel" ->
             IF axis = "Horizontal" /\ event.x THEN Some(CancelAmount)
             ELSE IF axis = "Vertical" /\ event.y THEN Some(CancelAmount)
             ELSE None
      [] event.type = "ScrollDiscrete" -> None
      [] event.type = "ScrollStop" ->
             IF axis = "Horizontal" /\ event.x THEN Some(StopAmount)
             ELSE IF axis = "Vertical" /\ event.y THEN Some(StopAmount)
             ELSE None
amount(event, axis) ==
    CASE event.type = "ScrollDelta" ->
             IF axis = "Horizontal" /\ event.dx /= 0 THEN Some(f64_from(event.dx))
             ELSE IF axis = "Vertical" /\ event.dy /= 0 THEN Some(f64_from(event.dy))
             ELSE None
      [] event.type = "ScrollCancel" ->
             IF axis = "Horizontal" /\ event.x THEN Some(CancelAmount)
             ELSE IF axis = "Vertical" /\ event.y THEN Some(CancelAmount)
             ELSE None
      [] event.type = "ScrollDiscrete" -> None
      [] event.type = "ScrollStop" ->
             IF axis = "Horizontal" /\ event.x THEN Some(StopAmount)
             ELSE IF axis = "Vertical" /\ event.y THEN Some(StopAmount)
             ELSE None

\* impl PointerAxisEvent for ScrollEvent: amount_v120
\* (a faulty variant: the stop of an axis is reported in this channel as well)
amount_v120MutStop(event, axis) ==
    CASE event.type = "ScrollDiscrete" ->
             IF axis = "Horizontal" /\ event.discrete_dx /= 0
             THEN Some(f64_from(event.discrete_dx))
             ELSE IF axis = "Vertical" /\ event.discrete_dy /= 0
             THEN Some(f64_from(event.discrete_dy))
             ELSE None
      [] event.type = "ScrollStop" -> amount(event, axis)
      [] OTHER -> None
amount_v120(event, axis) ==
    CASE event.type = "ScrollDiscrete" ->
             IF axis = "Horizontal" /\ event.discrete_dx /= 0
             THEN Some(f64_from(event.discrete_dx))
             ELSE IF axis = "Vertical" /\ event.discrete_dy /= 0
             THEN Some(f64_from(event.discrete_dy))
             ELSE None
      [] OTHER -> None

\* input::TouchSlot from an Option<u32>: a slot keyed by an optional id, where
\* an absent id is no persistent slot
TouchSlotFrom(id) == [id |-> id]

\* impl TouchEvent for request::TouchDown, TouchUp and TouchMotion: slot
\* (a faulty variant: every touch is given no persistent slot)
slotMutNone(event) == TouchSlotFrom(None)
slot(event) == TouchSlotFrom(Some(event.touch_id))

\* the capabilities of the host's input::DeviceCapability
HostCapabilities ==
    {"Gesture", "Keyboard", "Pointer", "Switch", "TabletPad", "TabletTool", "Touch"}

\* impl TryFrom<input::DeviceCapability> for DeviceCapability: Some for Ok,
\* None for Err(())
\* (a faulty variant: Gesture is taken for Touch)
try_fromMutGestureIsTouch(other) ==
    CASE other = "Gesture" -> Some("Touch")
      [] other = "Keyboard" -> Some("Keyboard")
      [] other = "Pointer" -> Some("Pointer")
      [] other = "Switch" -> None
      [] other = "TabletPad" -> None
      [] other = "TabletTool" -> None
      [] other = "Touch" -> Some("Touch")
try_from(other) ==
    CASE other = "Gesture" -> None
      [] other = "Keyboard" -> Some("Keyboard")
      [] other = "Pointer" -> Some("Pointer")
      [] other = "Switch" -> None
      [] other = "TabletPad" -> None
      [] other = "TabletTool" -> None
      [] other = "Touch" -> Some("Touch")

\* impl input::Device for request::Device: has_capability
has_capability(device, capability) ==
    LET converted == try_from(capability) IN
    IF IsSome(converted) THEN Unwrap(converted) \in device.capabilities ELSE FALSE

\* what the device of an event answers when asked for each host capability
DeviceAnswers(device) ==
    [has_capability |-> [c \in HostCapabilities |-> has_capability(device, c)]]

\* what the accessors of an InputEvent answer, by variant
Accessors(input_event) ==
    CASE input_event.variant = "Keyboard" ->
             [variant |-> "Keyboard",
              key_code |-> key_code(input_event.event),
              state |-> key_state(input_event.event),
              count |-> key_count(input_event.event)]
      [] input_event.variant = "PointerAxis" ->
             [variant |-> "PointerAxis",
              amount |-> [axis \in Axes |-> amount(input_event.event, axis)],
              amount_v120 |-> [axis \in Axes |-> amount_v120(input_event.event, axis)]]
      [] input_event.variant \in {"TouchDown", "TouchMotion", "TouchUp"} ->
             [variant |-> input_event.variant, slot |-> slot(input_event.event)]
      [] OTHER -> [variant |-> input_event.variant]

(***************************************************************************)
(* What the peer sends.                                                    *)
(***************************************************************************)
\* handshake requests over the given interface names, versions and names
HandshakeRequests(ifaces, versions, names) ==
         { [type |-> "HandshakeVersion", version |-> v] : v \in versions }
    \cup { [type |-> "ContextType", context_type |-> c] : c \in {"Sender", "Receiver"} }
    \cup { [type |-> "Name", name |-> n] : n \in names }
    \cup { [type |-> "InterfaceVersion", name |-> i, version |-> v] :
               i \in ifaces, v \in versions }
    \cup { [type |-> "Finish"] }
    \cup { [type |-> "Other"] }

DeviceInterfaces == {"ei_keyboard", "ei_pointer", "ei_touchscreen", "ei_pointer_absolute"}

\* the interfaces a connection negotiates next to the mandatory ones: three of
\* the four the Bind handler has a device for (ei_pointer_absolute is handled
\* as ei_pointer is) and ei_button, which it has none for
ConnectionInterfaces == (DeviceInterfaces \ {"ei_pointer_absolute"}) \cup {"ei_button"}

\* the handshake requests of a whole connection, each interface at version 1
ConnectionHandshakeRequests ==
    HandshakeRequests(MandatoryInterfaces \cup ConnectionInterfaces, {1}, {})

\* the handshake requests that exercise the handshake engine alone
EngineHandshakeRequests ==
    HandshakeRequests(MandatoryInterfaces \cup {"ei_keyboard", "ei_unknown"},
                      0 .. MaxVersion, {"a", "b"})

Keys == {U32(30)}

\* the number of bits set in a bitmask
RECURSIVE BitCount(_)
BitCount(m) == IF m = 0 THEN 0 ELSE (m % 2) + BitCount(m \div 2)

\* the bitmasks a Bind carries: none, one or two of the low MaskBits bits, and
\* the whole defined range
BindMasks ==
    { m \in 0 .. (Pow2(MaskBits) - 1) : BitCount(m) <= 2 } \cup {ValidCapabilities}

\* the requests a peer can send on device d of the seat
DeviceRequests(devs, d) ==
         { [type |-> t, device |-> d] :
               t \in {"Frame", "DeviceStartEmulating", "DeviceStopEmulating"} }
    \cup (IF "Keyboard" \in devs[d].capabilities
          THEN { [type |-> "KeyboardKey", device |-> d, key |-> k, state |-> s] :
                     k \in Keys, s \in {"Press"} }
          ELSE {})
    \cup (IF "Pointer" \in devs[d].capabilities
          THEN { [type |-> "PointerMotion", device |-> d, dx |-> 1, dy |-> 0] }
          ELSE {})
    \cup (IF "PointerAbsolute" \in devs[d].capabilities
          THEN { [type |-> "PointerMotionAbsolute", device |-> d,
                  dx_absolute |-> 1, dy_absolute |-> 0] }
          ELSE {})
    \cup (IF "Touch" \in devs[d].capabilities
          THEN { [type |-> "TouchDown", device |-> d, touch_id |-> 0, x |-> 1, y |-> 0] }
          ELSE {})

InputRequests(devs) == UNION { DeviceRequests(devs, d) : d \in 1 .. Len(devs) }

(***************************************************************************)
(* The state of one connection.                                            *)
(***************************************************************************)
VARIABLES
    phase,                  \* "handshake", "connected" (session made, Connected
                            \* not yet handled), "session", "removed", "panicked"
    pc,                     \* "waiting" for readiness, or "draining" in process_events
    pending,                \* events the running call of process_events has left to read
    context_type,           \* HandshakeState.context_type
    name,                   \* HandshakeState.name
    negotiated_interfaces,  \* HandshakeState.negotiated_interfaces
    requested,              \* interface of the table -> version of its last InterfaceVersion
    result,                 \* what the last call of handle_request returned
    finished,               \* whether handle_request was ever given a Finish
    last,                   \* the event handled last
    interfaces,             \* the interfaces of the connection, for has_interface
    sender,                 \* Option<SenderState>
    seat,                   \* EiInput.seat
    devices,                \* the devices of the seat, in the order of their creation
    keymaps,                \* for each device, how many keymaps the peer was sent for it
    created,                \* how many devices the event handled last added
    delivered,              \* the InputEvents the running call has given to the callback
    sent,                   \* the messages the running call has sent to the peer
    post_action,            \* the PostAction the callback returned last
    script,                 \* how far the connection has followed EndToEndScript, -1 if it left it
    listener,               \* the listener source of listen_eis
    conns,                  \* the connections the listener has accepted, in short
    reading                 \* what the sink has read of the event given to it last

hsvars == << context_type, name, negotiated_interfaces, requested, result, finished >>
lvars == << listener, conns >>
thisvars == << phase, pc, pending, context_type, name, negotiated_interfaces, requested,
               result, finished, last, interfaces, sender, seat, devices, keymaps, created,
               delivered, sent, post_action, script, reading >>
sessvars == << interfaces, sender, seat, devices, keymaps, created, delivered, post_action >>
vars == << phase, pc, pending, context_type, name, negotiated_interfaces, requested,
           result, finished, last, interfaces, sender, seat, devices, keymaps, created, delivered,
           sent,
           post_action, script, listener, conns, reading >>

\* the fields of HandshakeState as one record
HandshakeState ==
    [context_type |-> context_type, name |-> name,
     negotiated_interfaces |-> negotiated_interfaces]

\* the bit of the keyboard capability in a Bind bitmask
KeyboardBit == CapBit("Keyboard")

\* the end-to-end exchange: handshake, Bind of the keyboard, one key press
EndToEndScript ==
    << [type |-> "HandshakeVersion", version |-> 1],
       [type |-> "ContextType", context_type |-> "Sender"],
       [type |-> "InterfaceVersion", name |-> "ei_connection", version |-> 1],
       [type |-> "InterfaceVersion", name |-> "ei_pingpong", version |-> 1],
       [type |-> "InterfaceVersion", name |-> "ei_callback", version |-> 1],
       [type |-> "InterfaceVersion", name |-> "ei_keyboard", version |-> 1],
       [type |-> "Finish"],
       [type |-> "Bind", capabilities |-> KeyboardBit],
       [type |-> "KeyboardKey", device |-> 1, key |-> U32(30), state |-> "Press"] >>

Follow(ev) ==
    IF script >= 0 /\ script < Len(EndToEndScript) /\ ev = EndToEndScript[script + 1]
    THEN script + 1 ELSE -1

\* EiInput::new, HandshakeState::new
Init ==
    /\ phase = "handshake"
    /\ pc = "waiting"
    /\ pending = 0
    /\ context_type = NewHandshakeState.context_type
    /\ name = NewHandshakeState.name
    /\ negotiated_interfaces = NewHandshakeState.negotiated_interfaces
    /\ requested = EmptyMap
    /\ result = "None"
    /\ finished = FALSE
    /\ last = [type |-> "None"]
    /\ interfaces = {}
    /\ sender = None
    /\ seat = None
    /\ devices = <<>>
    /\ keymaps = <<>>
    /\ created = 0
    /\ delivered = <<>>
    /\ sent = NewHandshakeSent
    /\ post_action = "Continue"
    /\ script = 0
    /\ listener = "listening"
    /\ conns = <<>>
    /\ reading = None

(***************************************************************************)
(* The handshake: one request given to handle_request.  Disconnect has the *)
(* caller release the connection; Sender makes the session, which takes    *)
(* the connection over from the handshake state.                           *)
(***************************************************************************)
Handshake(request) ==
    /\ phase = "handshake"
    /\ LET o == handle_request(HandshakeState, request) IN
       /\ result' = o.result
       /\ finished' = (finished \/ request.type = "Finish")
       /\ last' = request
       /\ script' = Follow(request)
       /\ requested' = IF request.type = "InterfaceVersion"
                          /\ request.name \in DOMAIN SERVER_INTERFACES
                          /\ o.result /= "Sender"
                       THEN MapInsert(requested, request.name, request.version)
                       ELSE IF o.result = "Sender" THEN EmptyMap ELSE requested
       /\ IF o.result = "Sender"
          THEN /\ sender' = Some(NewSenderState(o.state.name))
               /\ interfaces' = DOMAIN o.state.negotiated_interfaces
               /\ sent' = sent \o o.sent \o SenderStateSent
               /\ context_type' = NewHandshakeState.context_type
               /\ name' = NewHandshakeState.name
               /\ negotiated_interfaces' = NewHandshakeState.negotiated_interfaces
               /\ phase' = "connected"
          ELSE /\ UNCHANGED << sender, interfaces >>
               /\ sent' = sent \o o.sent
               /\ context_type' = o.state.context_type
               /\ name' = o.state.name
               /\ negotiated_interfaces' = o.state.negotiated_interfaces
               /\ phase' = CASE o.result = "Disconnect" -> "removed"
                             [] o.result = "Panic" -> "panicked"
                             [] OTHER -> "handshake"
    /\ UNCHANGED << seat, devices, keymaps, created, delivered, post_action, lvars, reading >>

(***************************************************************************)
(* EiInput::process_events                                                 *)
(***************************************************************************)
\* the multiplexer reports readiness: process_events starts to drain
Readiness ==
    /\ pc = "waiting"
    /\ phase \in {"handshake", "session"}
    /\ pc' = "draining"
    /\ pending' \in 1 .. MaxBatch
    /\ delivered' = <<>>
    /\ sent' = <<>>
    /\ UNCHANGED << phase, lvars, reading, hsvars, last, interfaces, sender, seat, devices, keymaps, created,
                    post_action, script >>

\* one event of the batch is read
Reading == pc = "draining" /\ pending > 0

\* the callback returned Continue: the source goes on with the batch
Continue == pc' = pc /\ pending' = pending - 1

\* the callback returned Remove, or the call unwound: the source stops
\* (a faulty variant: the source goes on with the batch)
StopMutGoOn == pc' = pc /\ pending' = pending - 1
Stop == pc' = "waiting" /\ pending' = 0

HandshakeRequest ==
    /\ Reading
    /\ \E request \in ConnectionHandshakeRequests : Handshake(request)
    /\ IF phase' \in {"removed", "panicked"} THEN Stop ELSE Continue

\* Ok(EisRequestSourceEvent::Connected)
\* (a faulty variant: the seat is added and not kept)
ConnectedMutSeatDropped ==
    /\ pc = "draining"
    /\ phase = "connected"
    /\ seat' = seat
    /\ phase' = "session"
    /\ sent' = Append(sent, [msg |-> "flush"])
    /\ post_action' = "Continue"
    /\ last' = [type |-> "Connected"]
    /\ created' = 0
    /\ UNCHANGED << pc, pending, lvars, reading, hsvars, interfaces, sender, devices, keymaps, delivered, script >>
Connected ==
    /\ pc = "draining"
    /\ phase = "connected"
    /\ seat' = Some(ConnectedSeat)
    /\ phase' = "session"
    /\ sent' = Append(sent, [msg |-> "flush"])
    /\ post_action' = "Continue"
    /\ last' = [type |-> "Connected"]
    /\ created' = 0
    /\ UNCHANGED << pc, pending, lvars, reading, hsvars, interfaces, sender, devices, keymaps, delivered, script >>

\* Ok(EisRequestSourceEvent::Request(EisRequest::Disconnect))
Disconnect ==
    /\ Reading
    /\ phase = "session"
    /\ post_action' = "Remove"
    /\ phase' = "removed"
    /\ Stop
    /\ last' = [type |-> "Disconnect"]
    /\ script' = Follow([type |-> "Disconnect"])
    /\ created' = 0
    /\ UNCHANGED << lvars, reading, hsvars, interfaces, sender, seat, devices, keymaps, delivered, sent >>

\* Ok(EisRequestSourceEvent::Request(EisRequest::Bind(request)))
Bind(capabilities) ==
    /\ Reading
    /\ phase = "session"
    /\ last' = [type |-> "Bind", capabilities |-> capabilities]
    /\ script' = Follow([type |-> "Bind", capabilities |-> capabilities])
    /\ IF InvalidCapabilities(capabilities)
       THEN /\ sent' = sent \o disconnected("Value", "Invalid capabilities")
            /\ post_action' = "Remove"
            /\ phase' = "removed"
            /\ Stop
            /\ created' = 0
            /\ UNCHANGED << devices, keymaps >>
       ELSE IF seat = None
       THEN \* self.seat.as_ref().unwrap() panics
            /\ phase' = "panicked"
            /\ Stop
            /\ created' = 0
            /\ UNCHANGED << devices, keymaps, sent, post_action >>
       ELSE \E keymap_text \in (IF BindCreates(interfaces, capabilities, "Keyboard")
                                 THEN KeymapTexts ELSE {<<>>}) :
            LET new == BindDevices(interfaces, capabilities)
                out == BindSentFrom(new, Len(devices), 1, keymap_text)
            IN
            /\ Len(devices) + Len(new) <= MaxDevices
            /\ devices' = devices \o new
            /\ keymaps' = keymaps \o [k \in 1 .. Len(new) |-> KeymapsFor(out, Len(devices) + k)]
            /\ created' = Len(new)
            /\ sent' = sent \o out \o << [msg |-> "flush"] >>
            /\ post_action' = "Continue"
            /\ Continue
            /\ UNCHANGED phase
    /\ UNCHANGED << lvars, reading, hsvars, interfaces, sender, seat, delivered >>

BindRequest == \E capabilities \in BindMasks : Bind(capabilities)

\* Ok(EisRequestSourceEvent::Request(request)), any other request
\* (a faulty variant: the callback returns without the flush)
InputMutNoFlush(request) ==
    /\ Reading
    /\ phase = "session"
    /\ LET input_event == convert_request(request) IN
       delivered' = IF IsSome(input_event)
                    THEN Append(delivered, Unwrap(input_event)) ELSE delivered
    /\ post_action' = "Continue"
    /\ Continue
    /\ last' = request
    /\ script' = Follow(request)
    /\ created' = 0
    /\ UNCHANGED << phase, lvars, reading, hsvars, interfaces, sender, seat, devices, keymaps, sent >>
\* (a faulty variant: the event is put before those given to the callback so far)
InputMutPrepend(request) ==
    /\ Reading
    /\ phase = "session"
    /\ LET input_event == convert_request(request) IN
       delivered' = IF IsSome(input_event)
                    THEN << Unwrap(input_event) >> \o delivered ELSE delivered
    /\ sent' = Append(sent, [msg |-> "flush"])
    /\ post_action' = "Continue"
    /\ Continue
    /\ last' = request
    /\ script' = Follow(request)
    /\ created' = 0
    /\ UNCHANGED << phase, lvars, reading, hsvars, interfaces, sender, seat, devices, keymaps >>
Input(request) ==
    /\ Reading
    /\ phase = "session"
    /\ LET input_event == convert_request(request) IN
       delivered' = IF IsSome(input_event)
                    THEN Append(delivered, Unwrap(input_event)) ELSE delivered
    /\ sent' = Append(sent, [msg |-> "flush"])
    /\ post_action' = "Continue"
    /\ Continue
    /\ last' = request
    /\ script' = Follow(request)
    /\ created' = 0
    /\ UNCHANGED << phase, lvars, reading, hsvars, interfaces, sender, seat, devices, keymaps >>

InputRequest == \E request \in InputRequests(devices) : Input(request)

\* Ok(EisRequestSourceEvent::InvalidObject(_object_id))
\* (a faulty variant: the arm has the connection removed)
InvalidObjectMutRemove ==
    /\ Reading
    /\ phase = "session"
    /\ post_action' = "Remove"
    /\ phase' = "removed"
    /\ Stop
    /\ last' = [type |-> "InvalidObject"]
    /\ script' = -1
    /\ created' = 0
    /\ UNCHANGED << lvars, reading, hsvars, interfaces, sender, seat, devices, keymaps, delivered, sent >>
InvalidObject ==
    /\ Reading
    /\ phase = "session"
    /\ sent' = Append(sent, [msg |-> "flush"])
    /\ post_action' = "Continue"
    /\ Continue
    /\ last' = [type |-> "InvalidObject"]
    /\ script' = -1
    /\ created' = 0
    /\ UNCHANGED << phase, lvars, reading, hsvars, interfaces, sender, seat, devices, keymaps, delivered >>

\* Err(err)
\* (a faulty variant: the error is passed over and the source reads on)
ErrorMutRetry ==
    /\ Reading
    /\ phase \in {"handshake", "session"}
    /\ post_action' = "Continue"
    /\ Continue
    /\ last' = [type |-> "Err"]
    /\ script' = -1
    /\ created' = 0
    /\ UNCHANGED << phase, lvars, reading, hsvars, interfaces, sender, seat, devices, keymaps, delivered, sent >>
Error ==
    /\ Reading
    /\ phase \in {"handshake", "session"}
    /\ post_action' = "Remove"
    /\ phase' = "removed"
    /\ Stop
    /\ last' = [type |-> "Err"]
    /\ script' = -1
    /\ created' = 0
    /\ UNCHANGED << lvars, reading, hsvars, interfaces, sender, seat, devices, keymaps, delivered, sent >>

\* the batch is drained: process_events returns and the loop waits again
Return ==
    /\ pc = "draining"
    /\ pending = 0
    /\ phase /= "connected"
    /\ pc' = "waiting"
    /\ delivered' = <<>>
    /\ sent' = <<>>
    /\ last' = [type |-> "None"]
    /\ created' = 0
    /\ post_action' = "Continue"
    /\ UNCHANGED << phase, pending, lvars, reading, hsvars, interfaces, sender, seat, devices, keymaps, script >>

Next ==
    \/ Readiness
    \/ HandshakeRequest
    \/ Connected
    \/ Disconnect
    \/ BindRequest
    \/ InputRequest
    \/ InvalidObject
    \/ Error
    \/ Return

Spec == Init /\ [][Next]_vars

\* the handshake engine alone: handle_request on any sequence of requests
EngineRequest ==
    /\ \E request \in EngineHandshakeRequests : Handshake(request)
    /\ UNCHANGED << pc, pending >>

EngineNext == EngineRequest

EngineSpec == Init /\ [][EngineNext]_vars

\* handle_request as a method of a handshake state that outlives its results:
\* it takes &mut self, returns the session by value and keeps every field, so
\* it can be called again after it has returned Sender.  Disconnect has the
\* connection released and a panic unwinds; the Finish requests are counted
\* by their echoes and capped.
RepeatedHandshakeRequests ==
    HandshakeRequests(MandatoryInterfaces \cup {"ei_keyboard"}, {1}, {"a"})

RepeatedCall(request) ==
    /\ phase \in {"handshake", "connected"}
    /\ request.type = "Finish" =>
           Cardinality({ k \in DOMAIN sent : sent[k].msg = "interface_versions" }) < MaxFinish
    /\ LET o == handle_request(HandshakeState, request) IN
       /\ result' = o.result
       /\ finished' = (finished \/ request.type = "Finish")
       /\ last' = request
       /\ context_type' = o.state.context_type
       /\ name' = o.state.name
       /\ negotiated_interfaces' = o.state.negotiated_interfaces
       /\ IF o.result = "Sender"
          THEN /\ sender' = Some(NewSenderState(o.state.name))
               /\ interfaces' = DOMAIN o.state.negotiated_interfaces
               /\ sent' = sent \o o.sent \o SenderStateSent
          ELSE /\ UNCHANGED << sender, interfaces >>
               /\ sent' = sent \o o.sent
       /\ phase' = CASE o.result = "Disconnect" -> "removed"
                     [] o.result = "Panic" -> "panicked"
                     [] o.result = "Sender" -> "connected"
                     [] OTHER -> phase
    /\ UNCHANGED << pc, pending, requested, seat, devices, keymaps, created, delivered,
                    post_action, script, lvars, reading >>

RepeatedNext == \E request \in RepeatedHandshakeRequests : RepeatedCall(request)

RepeatedSpec == Init /\ [][RepeatedNext]_vars

(***************************************************************************)
(* anvil/src/libei.rs: the listener and the connections it accepts, each   *)
(* with its own source.  A connection is kept in short: its handshake      *)
(* state, its seat, its devices and the events it has given to the sink.   *)
(***************************************************************************)
\* EiInput::new(context), with the handshake state of the new connection
NewConnection ==
    [phase |-> "handshake", hs |-> NewHandshakeState, interfaces |-> {},
     seat |-> None, devices |-> <<>>, delivered |-> <<>>]

\* a source the event loop has dropped after PostAction::Remove, its EiInput with it
Dropped ==
    [phase |-> "removed", hs |-> NewHandshakeState, interfaces |-> {},
     seat |-> None, devices |-> <<>>, delivered |-> <<>>]

\* what the peers of these connections send
ListenerHandshakeRequests ==
    HandshakeRequests(MandatoryInterfaces \cup {"ei_keyboard"}, {1}, {})

ListenerBindMasks == { KeyboardBit, KeyboardBit + 1 }

\* the callback of the listener source: a new EiInput is inserted in the loop
Accept ==
    /\ listener = "listening"
    /\ Len(conns) < MaxConnections
    /\ conns' = Append(conns, NewConnection)
    /\ UNCHANGED << listener, thisvars >>

\* a handshake request of connection c; a panic unwinds the event loop and
\* ends the process, and every source with it
ConnHandshake(c, request) ==
    /\ listener = "listening"
    /\ conns[c].phase = "handshake"
    /\ LET o == handle_request(conns[c].hs, request) IN
       CASE o.result = "Panic" ->
                /\ listener' = "aborted"
                /\ conns' = <<>>
         [] o.result = "Disconnect" ->
                /\ conns' = [conns EXCEPT ![c] = Dropped]
                /\ UNCHANGED listener
         [] o.result = "Sender" ->
                /\ conns' = [conns EXCEPT ![c] =
                       [phase |-> "session", hs |-> NewHandshakeState,
                        interfaces |-> DOMAIN o.state.negotiated_interfaces,
                        seat |-> Some(ConnectedSeat), devices |-> <<>>,
                        delivered |-> <<>>]]
                /\ UNCHANGED listener
         [] OTHER ->
                /\ conns' = [conns EXCEPT ![c].hs = o.state]
                /\ UNCHANGED listener
    /\ UNCHANGED thisvars

\* a Bind of connection c
ConnBind(c, capabilities) ==
    /\ listener = "listening"
    /\ conns[c].phase = "session"
    /\ IF InvalidCapabilities(capabilities)
       THEN conns' = [conns EXCEPT ![c] = Dropped]
       ELSE LET new == BindDevices(conns[c].interfaces, capabilities) IN
            /\ Len(conns[c].devices) + Len(new) <= MaxDevices
            /\ conns' = [conns EXCEPT ![c].devices = @ \o new]
    /\ UNCHANGED << listener, thisvars >>

\* an input request of connection c
ConnInput(c, request) ==
    /\ listener = "listening"
    /\ conns[c].phase = "session"
    /\ Len(conns[c].delivered) < MaxBatch
    /\ LET input_event == convert_request(request) IN
       conns' = [conns EXCEPT ![c].delivered =
                    IF IsSome(input_event) THEN Append(@, Unwrap(input_event)) ELSE @]
    /\ UNCHANGED << listener, thisvars >>

\* a Disconnect request or a transport error of connection c
ConnRemove(c) ==
    /\ listener = "listening"
    /\ conns[c].phase \in {"handshake", "session"}
    /\ conns' = [conns EXCEPT ![c] = Dropped]
    /\ UNCHANGED << listener, thisvars >>

ListenerNext ==
    \/ Accept
    \/ \E c \in DOMAIN conns, request \in ListenerHandshakeRequests : ConnHandshake(c, request)
    \/ \E c \in DOMAIN conns, capabilities \in ListenerBindMasks : ConnBind(c, capabilities)
    \/ \E c \in DOMAIN conns :
           \E request \in InputRequests(conns[c].devices) : ConnInput(c, request)
    \/ \E c \in DOMAIN conns : ConnRemove(c)

ListenerSpec == Init /\ [][ListenerNext]_vars

(***************************************************************************)
(* The translator alone: convert_request on any one request, and the sink  *)
(* reading the event it is given through the accessors of its variant.     *)
(***************************************************************************)
\* the deltas and discrete steps of the scroll requests
ScrollValues == { 5 * n : n \in (0 - MaxScroll) .. MaxScroll }

\* wire key codes: small ones and the top of the u32 range
TranslatorKeys == { U32(0), U32(30), U32FromMax(8), U32FromMax(7), U32FromMax(0) }

\* requests of every type of EisRequest
TranslatorRequests ==
         { [type |-> "KeyboardKey", device |-> 1, key |-> k, state |-> s] :
               k \in TranslatorKeys, s \in {"Press", "Released"} }
    \cup { [type |-> "PointerMotion", device |-> 1, dx |-> 1, dy |-> 0] }
    \cup { [type |-> "PointerMotionAbsolute", device |-> 1,
            dx_absolute |-> 1, dy_absolute |-> 0] }
    \cup { [type |-> "Button", device |-> 1, button |-> 272, state |-> s] :
               s \in {"Press", "Released"} }
    \cup { [type |-> "ScrollDelta", device |-> 1, dx |-> dx, dy |-> dy] :
               dx \in ScrollValues, dy \in ScrollValues }
    \cup { [type |-> t, device |-> 1, x |-> x, y |-> y] :
               t \in {"ScrollStop", "ScrollCancel"}, x \in BOOLEAN, y \in BOOLEAN }
    \cup { [type |-> "ScrollDiscrete", device |-> 1,
            discrete_dx |-> dx, discrete_dy |-> dy] :
               dx \in ScrollValues, dy \in ScrollValues }
    \cup { [type |-> t, device |-> 1, touch_id |-> id, x |-> 1, y |-> 0] :
               t \in {"TouchDown", "TouchMotion"}, id \in {0, 1} }
    \cup { [type |-> "TouchUp", device |-> 1, touch_id |-> id] : id \in {0, 1} }
    \cup { [type |-> t, device |-> 1] :
               t \in {"Frame", "DeviceStartEmulating", "DeviceStopEmulating"} }
    \cup { [type |-> "Bind", capabilities |-> KeyboardBit] }
    \cup { [type |-> "Disconnect"] }

\* the seats the translated requests are for: one device, of any kind the
\* Bind handler makes
TranslatorDevices == { << NewDevice(cap) >> : cap \in DOMAIN DeviceName }

\* a request in hand, nothing translated yet
TranslatorInit ==
    /\ phase = "session"
    /\ pc = "waiting"
    /\ pending = 0
    /\ context_type = NewHandshakeState.context_type
    /\ name = NewHandshakeState.name
    /\ negotiated_interfaces = NewHandshakeState.negotiated_interfaces
    /\ requested = EmptyMap
    /\ result = "None"
    /\ finished = FALSE
    /\ last \in TranslatorRequests
    /\ interfaces = {}
    /\ sender = None
    /\ seat = None
    /\ devices \in TranslatorDevices
    /\ keymaps = <<>>
    /\ created = 0
    /\ delivered = <<>>
    /\ sent = <<>>
    /\ post_action = "Continue"
    /\ script = -1
    /\ listener = "listening"
    /\ conns = <<>>
    /\ reading = None

\* convert_request(request), and the event, if any, given to the sink
Translate ==
    /\ pc = "waiting"
    /\ LET input_event == convert_request(last) IN
           delivered' = IF IsSome(input_event) THEN << Unwrap(input_event) >> ELSE <<>>
    /\ pc' = "translated"
    /\ UNCHANGED << phase, pending, lvars, hsvars, last, interfaces, sender, seat, devices,
                    keymaps, created, sent, post_action, script, reading >>

\* the sink reads the event through its accessors and asks the device of the
\* event for each capability of the host.  Where the addition of
\* key_code overflows, a build with overflow checks panics and one without
\* them answers the wrapped sum.
SinkReads ==
    /\ pc = "translated"
    /\ delivered /= <<>>
    /\ \/ /\ phase' = phase
          /\ reading' = Some(Accessors(delivered[1])
                              @@ DeviceAnswers(devices[delivered[1].event.device]))
       \/ /\ delivered[1].variant = "Keyboard"
          /\ key_code_overflows(delivered[1].event)
          /\ phase' = "panicked"
          /\ reading' = reading
    /\ pc' = "read"
    /\ UNCHANGED << pending, lvars, hsvars, last, interfaces, sender, seat, devices,
                    keymaps, created, delivered, sent, post_action, script >>

TranslatorNext ==
    \/ Translate
    \/ SinkReads

TranslatorSpec == TranslatorInit /\ [][TranslatorNext]_vars

(***************************************************************************)
(* Properties.                                                             *)
(***************************************************************************)
MessagesOf(kind) == { i \in DOMAIN sent : sent[i].msg = kind }

\* sub is a contiguous part of seq
Contains(seq, sub) ==
    \E k \in 0 .. (Len(seq) - Len(sub)) : SubSeq(seq, k + 1, k + Len(sub)) = sub

\* bit i of the bitmask m is set
HasBit(m, i) == (m \div Pow2(i)) % 2 = 1

C2_LastRequestedVersion ==
    phase /= "connected" =>
        \A i \in DOMAIN requested :
            /\ i \in DOMAIN negotiated_interfaces
            /\ negotiated_interfaces[i] =
                   (IF requested[i] <= SERVER_INTERFACES[i]
                    THEN requested[i] ELSE SERVER_INTERFACES[i])

C2_Witness ==
    /\ phase = "handshake"
    /\ "ei_connection" \in DOMAIN requested
    /\ requested["ei_connection"] = 2
    /\ negotiated_interfaces["ei_connection"] = 1
    /\ "ei_keyboard" \in DOMAIN requested
    /\ requested["ei_keyboard"] = 0
    /\ negotiated_interfaces["ei_keyboard"] = 0

\* C3: an InterfaceVersion request that names no interface of the table returns
\* Continue and leaves context_type, name and negotiated_interfaces as they were.
C3_UnknownInterfaceIgnored ==
    [][ (last'.type = "InterfaceVersion" /\ last'.name \notin DOMAIN SERVER_INTERFACES)
        => /\ result' = "Continue"
           /\ phase' = "handshake"
           /\ UNCHANGED << context_type, name, negotiated_interfaces >> ]_vars

C3_Witness ==
    /\ last.type = "InterfaceVersion"
    /\ last.name = "ei_unknown"
    /\ last.version = 2
    /\ result = "Continue"
    /\ DOMAIN negotiated_interfaces = {"ei_callback", "ei_keyboard"}

\* C4: a Finish handled while ei_connection, ei_pingpong or ei_callback is not
\* negotiated returns Disconnect and makes no session, whatever the role, the
\* name and the other negotiated interfaces are.
C4_FinishWithoutMandatory ==
    [][ (last'.type = "Finish"
         /\ \E i \in {"ei_connection", "ei_pingpong", "ei_callback"} :
                i \notin DOMAIN negotiated_interfaces)
        => /\ result' = "Disconnect"
           /\ sender' = None
           /\ phase' = "removed" ]_vars

C4_Witness ==
    /\ last.type = "Finish"
    /\ result = "Disconnect"
    /\ context_type = Some("Sender")
    /\ IsSome(name)
    /\ DOMAIN negotiated_interfaces = {"ei_connection", "ei_pingpong", "ei_keyboard"}

\* C5: a ContextType request handled when context_type is set returns Disconnect
\* and leaves the stored context_type, which is that of the first request.
C5_SecondContextType ==
    [][ (last'.type = "ContextType")
        => IF IsSome(context_type)
           THEN result' = "Disconnect" /\ context_type' = context_type
           ELSE context_type' = Some(last'.context_type) ]_vars

C5_Witness ==
    /\ last.type = "ContextType"
    /\ last.context_type = "Receiver"
    /\ result = "Disconnect"
    /\ context_type = Some("Sender")

\* C6: the first Name request returns Continue and stores its name; a Name
\* request handled when name is set returns Disconnect and leaves the stored name.
C6_SecondName ==
    [][ (last'.type = "Name")
        => IF IsSome(name)
           THEN result' = "Disconnect" /\ name' = name
           ELSE result' = "Continue" /\ name' = Some(last'.name) ]_vars

C6_Witness ==
    /\ last.type = "Name"
    /\ last.name = "b"
    /\ result = "Disconnect"
    /\ name = Some("a")

\* the interface under which each of the six capabilities is advertised
CapabilityInterface ==
    [Pointer |-> "ei_pointer", PointerAbsolute |-> "ei_pointer_absolute",
     Button |-> "ei_button", Scroll |-> "ei_scroll",
     Keyboard |-> "ei_keyboard", Touch |-> "ei_touchscreen"]

\* the bit of a capability is set in the bitmask m
Requests(m, cap) == (m \div CapBit(cap)) % 2 = 1

\* the bitmask m has a bit outside bits 1 .. 6 (the range 0x7e)
OutOfRange(m) == \E i \in 0 .. MaskBits : i \notin 1 .. 6 /\ HasBit(m, i)

\* the devices the seat had before the event handled last, and those it added
DevicesBefore == SubSeq(devices, 1, Len(devices) - created)
DevicesAdded == SubSeq(devices, Len(devices) - created + 1, Len(devices))

\* how many devices of the sequence devs have the capability
DevicesWith(devs, cap) == Cardinality({ d \in DOMAIN devs : cap \in devs[d].capabilities })

\* C7: a Bind whose bitmask has a bit outside the range 0x7e (bit 0, or a bit
\* above 0x40) sends the peer a disconnected message with reason Value, flushes
\* it, and has the connection removed.
C7_InvalidBindDisconnects ==
    (last.type = "Bind" /\ OutOfRange(last.capabilities)) =>
        /\ phase = "removed"
        /\ post_action = "Remove"
        /\ Len(sent) >= 2
        /\ sent[Len(sent) - 1].msg = "disconnected"
        /\ sent[Len(sent) - 1].reason = "Value"
        /\ sent[Len(sent)].msg = "flush"
        /\ Cardinality(MessagesOf("disconnected")) = 1

C7_Witness ==
    /\ last.type = "Bind"
    /\ last.capabilities = 129
    /\ phase = "removed"
    /\ Cardinality(MessagesOf("disconnected")) = 1

\* C8: a Bind with a valid bitmask adds, for each of the six capabilities, exactly
\* one device if the bit of the capability is requested, its interface is
\* negotiated and no device of the seat has the capability yet, and no device of
\* that capability otherwise.
C8_OneDevicePerNewCapability ==
    (last.type = "Bind" /\ ~OutOfRange(last.capabilities)) =>
        \A cap \in Capabilities :
            DevicesWith(DevicesAdded, cap) =
                (IF /\ Requests(last.capabilities, cap)
                    /\ CapabilityInterface[cap] \in interfaces
                    /\ DevicesWith(DevicesBefore, cap) = 0
                 THEN 1 ELSE 0)

\* C9: the seat holds at most one device of each capability, and a Bind whose
\* requested capabilities all have a device already adds none.
C9_BindIdempotent ==
    /\ \A cap \in Capabilities : DevicesWith(devices, cap) <= 1
    /\ (/\ last.type = "Bind"
        /\ ~OutOfRange(last.capabilities)
        /\ \A cap \in Capabilities :
               Requests(last.capabilities, cap) => DevicesWith(DevicesBefore, cap) > 0)
       => created = 0

\* C10: in a Bind with a valid bitmask, a requested capability whose interface is
\* not negotiated gets no device and the connection goes on (the callback
\* returns Continue); the requested capabilities whose interface is negotiated
\* and which the handler has a device for get theirs.
C10_UnnegotiatedSkipped ==
    (last.type = "Bind" /\ ~OutOfRange(last.capabilities)) =>
        /\ phase = "session"
        /\ post_action = "Continue"
        /\ Cardinality(MessagesOf("disconnected")) = 0
        /\ \A cap \in Capabilities :
               (Requests(last.capabilities, cap) /\ CapabilityInterface[cap] \notin interfaces)
                   => DevicesWith(DevicesAdded, cap) = 0
        /\ \A cap \in {"Keyboard", "Pointer", "Touch", "PointerAbsolute"} :
               (Requests(last.capabilities, cap) /\ CapabilityInterface[cap] \in interfaces)
                   => DevicesWith(DevicesAdded, cap) = 1

C10_Witness ==
    /\ last.type = "Bind"
    /\ last.capabilities = CapBit("Keyboard") + CapBit("Pointer")
    /\ "ei_keyboard" \notin interfaces
    /\ "ei_pointer" \in interfaces
    /\ created = 1
    /\ DevicesWith(DevicesAdded, "Pointer") = 1
    /\ phase = "session"
    /\ post_action = "Continue"

\* C11: as long as handle_request was given no Finish, it has returned only
\* Continue or Disconnect, there is no session, no device, and the callback was
\* given no InputEvent; and no InputEvent is given to the callback while there
\* is no session.
C11_NoSessionBeforeFinish ==
    /\ ~finished =>
          /\ result \in {"None", "Continue", "Disconnect"}
          /\ sender = None
          /\ seat = None
          /\ phase \in {"handshake", "removed"}
          /\ devices = <<>>
          /\ delivered = <<>>
    /\ sender = None => delivered = <<>>

C11_Witness ==
    /\ ~finished
    /\ last.type = "ContextType"
    /\ result = "Disconnect"
    /\ phase = "removed"
    /\ DOMAIN negotiated_interfaces = {"ei_connection", "ei_pingpong", "ei_callback"}
    /\ delivered = <<>>

\* C12: the peer is sent exactly one keymap for every keyboard device and none
\* for any other device; the Bind that adds a keyboard device sends its keymap
\* in the same step; and every Keyboard event given to the callback is of a
\* device whose keymap was sent before.
C12_KeymapOnceBeforeKeys ==
    /\ Len(keymaps) = Len(devices)
    /\ \A d \in DOMAIN devices :
          /\ keymaps[d] = (IF "Keyboard" \in devices[d].capabilities THEN 1 ELSE 0)
          /\ KeymapsFor(sent, d) <= keymaps[d]
    /\ (last.type = "Bind" /\ ~OutOfRange(last.capabilities)) =>
          \A d \in (Len(devices) - created + 1) .. Len(devices) :
              KeymapsFor(sent, d) = (IF "Keyboard" \in devices[d].capabilities THEN 1 ELSE 0)
    /\ \A i \in DOMAIN delivered :
          delivered[i].variant = "Keyboard" =>
              /\ delivered[i].event.device \in DOMAIN devices
              /\ "Keyboard" \in devices[delivered[i].event.device].capabilities
              /\ keymaps[delivered[i].event.device] = 1

C12_Witness ==
    /\ Len(devices) = 2
    /\ keymaps = << 1, 1 >>
    /\ Len(delivered) = 1
    /\ delivered[1].variant = "Keyboard"
    /\ delivered[1].event.device = 2
    /\ KeymapsFor(sent, 2) = 0

\* C13: every keymap message sent for a keyboard device hands over a sealed
\* region that holds at least one byte, and declares as its size the number of
\* bytes the region holds.
C13_KeymapLength ==
    \A i \in MessagesOf("keymap") :
        /\ sent[i].device \in DOMAIN devices
        /\ "Keyboard" \in devices[sent[i].device].capabilities
        /\ sent[i].fd.sealed
        /\ Len(sent[i].fd.data) > 0
        /\ sent[i].size = Len(sent[i].fd.data)

C13_Witness ==
    /\ last.type = "Bind"
    /\ created = 1
    /\ \E i \in MessagesOf("keymap") :
          /\ sent[i].device = Len(devices)
          /\ sent[i].size = MaxKeymapLen
          /\ Len(sent[i].fd.data) = MaxKeymapLen

\* C14: whenever the connection is released because handle_request returned
\* Disconnect (second ContextType, second Name, Finish without a mandatory
\* interface or without a role) or because a Bind had an invalid bitmask, the
\* peer was sent a disconnected message with a reason and an explanation,
\* followed by a flush.
C14_DisconnectReported ==
    (phase = "removed" /\ last.type \in {"ContextType", "Name", "Finish", "Bind"}) =>
        \E i \in MessagesOf("disconnected") :
            /\ sent[i].reason /= ""
            /\ sent[i].explaination /= ""
            /\ i < Len(sent)
            /\ sent[i + 1].msg = "flush"

\* C15: once a Disconnect request is handled, the callback has returned
\* PostAction::Remove, the connection is removed, the rest of the batch is
\* given up, and the connection takes no further step: no request is handled,
\* no device is added and no InputEvent is given to the callback after it.
C15_DisconnectStops ==
    last.type = "Disconnect" =>
        /\ post_action = "Remove"
        /\ phase = "removed"
        /\ pc = "waiting"
        /\ pending = 0
        /\ ~ENABLED Next

C15_Witness ==
    /\ last.type = "Disconnect"
    /\ phase = "removed"
    /\ Len(devices) = 1
    /\ Len(delivered) = 1
    /\ delivered[1].variant = "Keyboard"

\* the requests that mark a frame, or the start or the stop of an emulation
Markers == {"Frame", "DeviceStartEmulating", "DeviceStopEmulating"}

\* C16: no InputEvent given to the callback derives from a Frame, a
\* DeviceStartEmulating or a DeviceStopEmulating request; and once such a
\* request is handled, no device was added, the callback has flushed and
\* returned Continue, no disconnected message was sent, and the session goes on.
C16_MarkersDropped ==
    /\ \A i \in DOMAIN delivered : delivered[i].event.type \notin Markers
    /\ last.type \in Markers =>
          /\ phase = "session"
          /\ post_action = "Continue"
          /\ created = 0
          /\ Len(sent) > 0
          /\ sent[Len(sent)].msg = "flush"
          /\ MessagesOf("disconnected") = {}

C16_Witness ==
    /\ last.type = "DeviceStartEmulating"
    /\ pc = "draining"
    /\ Len(delivered) = 1
    /\ delivered[1].variant = "TouchDown"
    /\ phase = "session"

\* the state of the adapter: Handshaking until the Connected event is handled,
\* Connected while the seat has no device, Bound once it has one, Removed when
\* the connection is released; Aborted when the process has panicked
AdapterState ==
    CASE phase \in {"handshake", "connected"}    -> "Handshaking"
      [] phase = "session" /\ devices = <<>>     -> "Connected"
      [] phase = "session" /\ devices /= <<>>    -> "Bound"
      [] phase = "removed"                       -> "Removed"
      [] OTHER                                   -> "Aborted"

AdapterSteps ==
    { << "Handshaking", "Handshaking" >>, << "Handshaking", "Connected" >>,
      << "Handshaking", "Removed" >>, << "Handshaking", "Aborted" >>,
      << "Connected", "Connected" >>, << "Connected", "Bound" >>,
      << "Connected", "Removed" >>,
      << "Bound", "Bound" >>, << "Bound", "Removed" >> }

\* the requests of a session
SessionRequests == {"Bind", "Disconnect"} \cup DOMAIN EventVariant \cup Markers

\* C17: every step of the adapter goes from Handshaking to Connected, from
\* Connected to Bound, from any of the three to Removed, or stays where it is
\* (the Finish of a Receiver, which aborts the process, ends the adapter with
\* it); a Disconnect request and a transport error lead to Removed with
\* PostAction::Remove; Removed has no step; and a session request is handled
\* only when the Connected event was handled before.
C17_StateMachine ==
    [][ /\ << AdapterState, AdapterState' >> \in AdapterSteps
        /\ last'.type \in {"Disconnect", "Err"} =>
               /\ AdapterState' = "Removed"
               /\ post_action' = "Remove"
               /\ pc' = "waiting"
        /\ AdapterState /= "Removed"
        /\ last'.type \in SessionRequests =>
               /\ AdapterState \in {"Connected", "Bound"}
               /\ IsSome(seat) ]_vars

C17_Witness ==
    /\ last.type = "Err"
    /\ AdapterState = "Removed"
    /\ devices /= <<>>
    /\ IsSome(seat)

\* C18, as the claim states it: once an invalid-object reference of the peer is
\* handled, the callback has returned PostAction::Remove and the connection is
\* removed.
C18_InvalidObjectRemoves ==
    last.type = "InvalidObject" =>
        /\ phase = "removed"
        /\ post_action = "Remove"

\* C18, amended: once an invalid-object reference of the peer is handled, the
\* connection is still in its session: the callback has flushed and returned
\* PostAction::Continue, no device was added and no disconnected message sent.
C18_InvalidObjectIgnored ==
    last.type = "InvalidObject" =>
        /\ phase = "session"
        /\ post_action = "Continue"
        /\ pc = "draining"
        /\ created = 0
        /\ Len(sent) > 0
        /\ sent[Len(sent)].msg = "flush"
        /\ MessagesOf("disconnected") = {}

C18_Witness ==
    /\ last.type = "InvalidObject"
    /\ phase = "session"
    /\ Len(devices) = 1
    /\ post_action = "Continue"

\* how many of the messages msgs are a flush
Flushes(msgs) == Cardinality({ i \in DOMAIN msgs : msgs[i].msg = "flush" })

\* C19, as the claim states it: when process_events has drained a batch of the
\* session, it has flushed exactly once, as the last thing it did.
C19_OneFlushPerBatch ==
    (pc = "draining" /\ pending = 0 /\ phase = "session") =>
        /\ Flushes(sent) = 1
        /\ sent[Len(sent)].msg = "flush"

\* C19, amended: the callback flushes once for every event it handles and
\* returns Continue for (the Connected event, a Bind with a valid bitmask, an
\* invalid-object reference, any other request), as the last thing it does for
\* that event; a Bind with an invalid bitmask flushes once, after its
\* disconnected message; a Disconnect request and a transport error send and
\* flush nothing.
C19_OneFlushPerEvent ==
    [][ /\ last'.type \in ({"Connected", "Bind", "InvalidObject"}
                            \cup DOMAIN EventVariant \cup Markers) =>
               /\ Len(sent') > Len(sent)
               /\ SubSeq(sent', 1, Len(sent)) = sent
               /\ Flushes(sent') = Flushes(sent) + 1
               /\ sent'[Len(sent')].msg = "flush"
        /\ last'.type \in {"Disconnect", "Err"} => sent' = sent ]_vars

C19_Witness ==
    /\ pc = "draining"
    /\ pending = 0
    /\ phase = "session"
    /\ last.type = "KeyboardKey"
    /\ Len(delivered) = 2
    /\ Flushes(sent) = 2

\* C20: a request that convert_request translates has its one InputEvent, which
\* carries the request, put after all the events the running call of
\* process_events has given to the callback, in the step that handles the
\* request; an event that translates to nothing leaves those events as they
\* are; and process_events returns, unless the connection is released, with no
\* request of the batch left to read.
C20_OrderedDelivery ==
    [][ /\ last'.type \in DOMAIN EventVariant =>
               delivered' = Append(delivered, [variant |-> EventVariant[last'.type],
                                               event |-> last'])
        /\ last'.type \notin (DOMAIN EventVariant \cup {"None"}) => delivered' = delivered
        /\ (pc = "draining" /\ pc' = "waiting" /\ phase' \notin {"removed", "panicked"})
               => pending = 0 ]_vars

C20_Witness ==
    /\ pc = "draining"
    /\ pending = 0
    /\ last.type = "PointerMotion"
    /\ Len(delivered) = 2
    /\ delivered[1].variant = "Keyboard"
    /\ delivered[1].event.device = 1
    /\ delivered[2].variant = "PointerMotion"
    /\ delivered[2].event = last

\* C21: no step removes the listener, no step takes a connection out of the
\* loop other than the one the step is about, and a step that changes one
\* connection leaves the seat, the devices and the delivered events of every
\* other connection as they are.
C21_ConnectionsIndependent ==
    [][ /\ listener' = "listening"
        /\ Len(conns') >= Len(conns)
        /\ \A c \in DOMAIN conns :
               conns'[c] /= conns[c] =>
                   \A o \in DOMAIN conns \ {c} : conns'[o] = conns[o] ]_vars

\* C22: whatever the peer sends, no call of the handshake engine or of the
\* callback of process_events panics: the process never aborts.
C22_NeverPanics == phase /= "panicked"

\* the connection-control objects the messages msgs allocate
ConnectionObjects(msgs) == { i \in DOMAIN msgs : msgs[i].msg = "connection" }

\* C23: a Finish handled with ei_connection, ei_pingpong and ei_callback
\* negotiated sends one connection message, with id 0 and version 1, and then:
\* with the role Sender it returns Sender and makes the session, which has the
\* name of the handshake and serial 0; with no role it returns Disconnect and
\* makes no session.
C23_FinishBranchesOnRole ==
    [][ (/\ phase = "handshake"
         /\ last'.type = "Finish"
         /\ \A i \in {"ei_connection", "ei_pingpong", "ei_callback"} :
                i \in DOMAIN negotiated_interfaces)
        => /\ ConnectionObjects(sent) = {}
           /\ Cardinality(ConnectionObjects(sent')) = 1
           /\ \A i \in ConnectionObjects(sent') : sent'[i].id = 0 /\ sent'[i].version = 1
           /\ context_type = Some("Sender") =>
                  /\ result' = "Sender"
                  /\ sender' = Some([name |-> name, last_serial |-> 0])
                  /\ phase' = "connected"
           /\ context_type = None =>
                  /\ result' = "Disconnect"
                  /\ sender' = None
                  /\ phase' = "removed" ]_vars

C23_Witness ==
    /\ last.type = "Finish"
    /\ result = "Sender"
    /\ sender = Some([name |-> Some("a"), last_serial |-> 0])
    /\ Cardinality(ConnectionObjects(sent)) = 1

\* C24: once a Finish is handled with the role Receiver, then, if
\* ei_connection, ei_pingpong and ei_callback are negotiated, the call has
\* panicked: it has returned neither Sender nor Disconnect and there is no
\* session; if one of them is missing, the call has returned Disconnect.  The
\* panic occurs on no other path of the handshake.
C24_ReceiverIsFatal ==
    /\ (last.type = "Finish" /\ context_type = Some("Receiver")) =>
          IF \A i \in {"ei_connection", "ei_pingpong", "ei_callback"} :
                 i \in DOMAIN negotiated_interfaces
          THEN /\ result = "Panic"
               /\ phase = "panicked"
               /\ sender = None
          ELSE /\ result = "Disconnect"
               /\ phase = "removed"
               /\ sender = None
    /\ (result = "Panic" \/ phase = "panicked") =>
          /\ last.type = "Finish"
          /\ context_type = Some("Receiver")

C24_Witness ==
    /\ last.type = "Finish"
    /\ context_type = Some("Receiver")
    /\ result = "Panic"
    /\ IsSome(name)
    /\ "ei_keyboard" \in DOMAIN negotiated_interfaces

\* C25: the first thing a Finish sends is the echo of the negotiated
\* interfaces, whatever it returns: one interface_version for each entry of
\* negotiated_interfaces, with the version of the entry, and none for any other
\* interface.
C25_FinishEchoes ==
    [][ (phase = "handshake" /\ last'.type = "Finish")
        => /\ Len(sent') > Len(sent)
           /\ SubSeq(sent', 1, Len(sent)) = sent
           /\ sent'[Len(sent) + 1].msg = "interface_versions"
           /\ \A k \in (Len(sent) + 2) .. Len(sent') : sent'[k].msg /= "interface_versions"
           /\ \A i \in DOMAIN negotiated_interfaces :
                  { e \in sent'[Len(sent) + 1].entries : e[1] = i }
                      = { << i, negotiated_interfaces[i] >> }
           /\ \A e \in sent'[Len(sent) + 1].entries : e[1] \in DOMAIN negotiated_interfaces ]_vars

C25_Witness ==
    /\ last.type = "Finish"
    /\ result = "Disconnect"
    /\ \E k \in DOMAIN sent :
          /\ sent[k].msg = "interface_versions"
          /\ sent[k].entries = { << "ei_connection", 1 >>, << "ei_keyboard", 0 >> }

\* the six capabilities of the seat, by the interface each is announced under
AdvertisedInterfaces ==
    {"ei_pointer", "ei_pointer_absolute", "ei_button", "ei_scroll", "ei_keyboard",
     "ei_touchscreen"}

\* C26: the Finish that makes the Sender session has sent one seat message,
\* one name message with the name "default", one capability message for each
\* of the six capabilities and none else, and one done message that comes
\* after all of them; and a Bind is handled only in a session whose seat was
\* advertised so, a seat named "default" with each of the six capabilities
\* once.
C26_SeatAdvertisedOnce ==
    /\ (last.type = "Finish" /\ result = "Sender") =>
          /\ Cardinality(MessagesOf("seat")) = 1
          /\ Cardinality(MessagesOf("name")) = 1
          /\ \A i \in MessagesOf("name") : sent[i].name = "default"
          /\ Cardinality(MessagesOf("capability")) = 6
          /\ \A a \in AdvertisedInterfaces :
                 Cardinality({ i \in MessagesOf("capability") : sent[i].interface = a }) = 1
          /\ Cardinality(MessagesOf("done")) = 1
          /\ \A d \in MessagesOf("done") :
                 \A i \in MessagesOf("seat") \cup MessagesOf("name")
                          \cup MessagesOf("capability") : i < d
          /\ \A i \in MessagesOf("seat") : \A j \in MessagesOf("capability") : i < j
          /\ MessagesOf("keymap") = {}
          /\ devices = <<>>
    /\ last.type = "Bind" =>
          /\ IsSome(sender)
          /\ finished
          /\ IsSome(seat)
          /\ Unwrap(seat).name = "default"
          /\ Len(Unwrap(seat).capabilities) = 6
          /\ \A cap \in Capabilities :
                 Cardinality({ k \in DOMAIN Unwrap(seat).capabilities :
                                  Unwrap(seat).capabilities[k] = cap }) = 1

C26_Witness ==
    /\ last.type = "Finish"
    /\ result = "Sender"
    /\ phase = "connected"
    /\ Cardinality(MessagesOf("capability")) = 6
    /\ interfaces = {"ei_connection", "ei_pingpong", "ei_callback", "ei_touchscreen"}

\* C27: the translator answers every request of every type, and what it
\* answers follows from the type of the request alone: KeyboardKey,
\* PointerMotion, PointerMotionAbsolute, Button, the four scroll requests (all
\* as PointerAxis), TouchDown, TouchMotion and TouchUp give one event of their
\* variant around the request itself; Frame, Bind, Disconnect,
\* DeviceStartEmulating and DeviceStopEmulating give none, so the sink gets no
\* event for them.
C27_TranslatorTable ==
    /\ pc = "waiting" => ENABLED Translate
    /\ pc /= "waiting" =>
           LET one(variant) == delivered = << [variant |-> variant, event |-> last] >> IN
           /\ last.type = "KeyboardKey" => one("Keyboard")
           /\ last.type = "PointerMotion" => one("PointerMotion")
           /\ last.type = "PointerMotionAbsolute" => one("PointerMotionAbsolute")
           /\ last.type = "Button" => one("PointerButton")
           /\ last.type \in {"ScrollDelta", "ScrollStop", "ScrollCancel", "ScrollDiscrete"} =>
                  one("PointerAxis")
           /\ last.type = "TouchDown" => one("TouchDown")
           /\ last.type = "TouchMotion" => one("TouchMotion")
           /\ last.type = "TouchUp" => one("TouchUp")
           /\ last.type \in {"Frame", "Bind", "Disconnect",
                             "DeviceStartEmulating", "DeviceStopEmulating"} =>
                  delivered = <<>> /\ reading = None
           /\ last.type \in {"KeyboardKey", "PointerMotion", "PointerMotionAbsolute",
                             "Button", "ScrollDelta", "ScrollStop", "ScrollCancel",
                             "ScrollDiscrete", "TouchDown", "TouchMotion", "TouchUp",
                             "Frame", "Bind", "Disconnect",
                             "DeviceStartEmulating", "DeviceStopEmulating"}

C27_Witness ==
    /\ pc = "translated"
    /\ last = [type |-> "ScrollStop", device |-> 1, x |-> FALSE, y |-> TRUE]
    /\ Len(delivered) = 1
    /\ delivered[1].variant = "PointerAxis"

\* C28: for every wire key code k of the u32 range the sink reads the key code
\* k + 8 of a Keyboard event, with no wrap-around and no failure near the top
\* of the range, Press reads as Pressed, Released as Released, and the count
\* reads as 1.
C28_KeyCodeOffset ==
    (pc = "read" /\ last.type = "KeyboardKey") =>
        /\ phase /= "panicked"
        /\ IsSome(reading)
        /\ LET r == Unwrap(reading)
               carry == r.key_code.hi - last.key.hi IN
           /\ carry \in {0, 1}
           /\ carry * HalfWord + r.key_code.lo - last.key.lo = 8
           /\ r.state = (IF last.state = "Press" THEN "Pressed" ELSE "Released")
           /\ r.count = 1

\* C29: the amount of a scroll event on an axis follows from the fields of
\* the request for that axis alone: for ScrollDelta the raw value if it is
\* not zero and nothing if it is; for ScrollCancel 0.01 if the axis is
\* flagged and nothing otherwise; for ScrollStop 0.0 if the axis is flagged
\* and nothing otherwise.
C29_ScrollAmount ==
    (pc = "read" /\ last.type \in {"ScrollDelta", "ScrollCancel", "ScrollStop"}) =>
        /\ IsSome(reading)
        /\ LET r == Unwrap(reading).amount
               field(axis) == IF last.type = "ScrollDelta"
                              THEN (IF axis = "Horizontal" THEN last.dx ELSE last.dy)
                              ELSE (IF axis = "Horizontal" THEN last.x ELSE last.y) IN
           \A axis \in Axes :
               /\ last.type = "ScrollDelta" =>
                      r[axis] = IF field(axis) /= 0 THEN << 100 * field(axis) >> ELSE <<>>
               /\ last.type = "ScrollCancel" =>
                      r[axis] = IF field(axis) THEN << 1 >> ELSE <<>>
               /\ last.type = "ScrollStop" =>
                      r[axis] = IF field(axis) THEN << 0 >> ELSE <<>>

C29_Witness ==
    /\ pc = "read"
    /\ last = [type |-> "ScrollDelta", device |-> 1, dx |-> 0, dy |-> 5]
    /\ Unwrap(reading).amount = [axis \in Axes |->
                                     IF axis = "Vertical" THEN << 500 >> ELSE <<>>]

\* C30: a ScrollDiscrete event has no continuous amount on either axis, and
\* its 120-units-per-notch amount on an axis is the discrete value of that
\* axis if it is not zero and nothing if it is; ScrollDelta, ScrollCancel and
\* ScrollStop events have no 120-units-per-notch amount.
C30_DiscreteChannel ==
    (pc = "read" /\ delivered /= <<>> /\ delivered[1].variant = "PointerAxis") =>
        /\ IsSome(reading)
        /\ LET r == Unwrap(reading) IN
           /\ last.type = "ScrollDiscrete" =>
                  /\ \A axis \in Axes : r.amount[axis] = <<>>
                  /\ r.amount_v120["Horizontal"] =
                         IF last.discrete_dx /= 0 THEN << 100 * last.discrete_dx >> ELSE <<>>
                  /\ r.amount_v120["Vertical"] =
                         IF last.discrete_dy /= 0 THEN << 100 * last.discrete_dy >> ELSE <<>>
           /\ last.type /= "ScrollDiscrete" =>
                  \A axis \in Axes : r.amount_v120[axis] = <<>>

C30_Witness ==
    /\ pc = "read"
    /\ last = [type |-> "ScrollDiscrete", device |-> 1, discrete_dx |-> 0 - 5,
               discrete_dy |-> 0]
    /\ Unwrap(reading).amount_v120["Horizontal"] = << 0 - 500 >>
    /\ Unwrap(reading).amount_v120["Vertical"] = <<>>
    /\ Unwrap(reading).amount["Horizontal"] = <<>>

\* C31: the conversion of a host capability succeeds for Keyboard, Pointer and
\* Touch, each to the capability of the same name, and fails for Gesture,
\* Switch, TabletPad and TabletTool; a device asked for a capability answers
\* true only if the conversion succeeds and the device has the capability it
\* gives, and false for every capability whose conversion fails.
C31_CapabilityConversion ==
    (pc = "read" /\ IsSome(reading)) =>
        LET answers == Unwrap(reading).has_capability
            device == devices[last.device] IN
        /\ \A c \in {"Keyboard", "Pointer", "Touch"} :
               /\ try_from(c) = << c >>
               /\ answers[c] = (c \in device.capabilities)
        /\ \A c \in {"Gesture", "Switch", "TabletPad", "TabletTool"} :
               /\ try_from(c) = <<>>
               /\ answers[c] = FALSE

C31_Witness ==
    /\ pc = "read"
    /\ IsSome(reading)
    /\ devices[last.device].capabilities = {"Touch"}
    /\ Unwrap(reading).has_capability["Touch"]
    /\ ~Unwrap(reading).has_capability["Gesture"]
    /\ ~Unwrap(reading).has_capability["Keyboard"]

\* C32: a HandshakeVersion request, whatever its version, and a handshake
\* request that is none of ContextType, Name, InterfaceVersion and Finish
\* return Continue and leave context_type, name and negotiated_interfaces as
\* they were; nothing is sent and the handshake goes on.
C32_IgnoredRequests ==
    [][ last'.type \in {"HandshakeVersion", "Other"} =>
            /\ result' = "Continue"
            /\ context_type' = context_type
            /\ name' = name
            /\ negotiated_interfaces' = negotiated_interfaces
            /\ sent' = sent
            /\ phase' = "handshake" ]_vars

C32_Witness ==
    /\ last = [type |-> "HandshakeVersion", version |-> 0]
    /\ result = "Continue"
    /\ phase = "handshake"
    /\ IsSome(context_type)
    /\ IsSome(name)
    /\ DOMAIN negotiated_interfaces = {"ei_connection", "ei_keyboard"}

\* C33: the first two things a connection sends are the engine's handshake
\* version, 1, and a flush, before anything the handling of a request sends,
\* and the version is sent once; before any request is handled the role and
\* the name are unset and no interface is negotiated.
C33_VersionAdvertisedFirst ==
    /\ Len(sent) >= 2
    /\ sent[1] = [msg |-> "handshake_version", version |-> 1]
    /\ sent[2] = [msg |-> "flush"]
    /\ MessagesOf("handshake_version") = {1}
    /\ last.type = "None" =>
           /\ Len(sent) = 2
           /\ context_type = <<>>
           /\ name = <<>>
           /\ DOMAIN negotiated_interfaces = {}

C33_Witness ==
    /\ last.type = "Finish"
    /\ result = "Sender"
    /\ Len(sent) > 2
    /\ sent[1].msg = "handshake_version"
    /\ sent[3].msg = "interface_versions"

\* the touch requests among those translated
TouchRequests ==
    { r \in TranslatorRequests : r.type \in {"TouchDown", "TouchMotion", "TouchUp"} }

\* C34: the slot read from a TouchDown, TouchMotion or TouchUp event is the
\* slot keyed by the touch id of the request and by nothing else, so two
\* touch events have the same slot exactly when their touch ids are equal,
\* whatever their types and positions.
C34_SlotFromTouchId ==
    (pc = "read" /\ last.type \in {"TouchDown", "TouchMotion", "TouchUp"}) =>
        /\ IsSome(reading)
        /\ Unwrap(reading).slot = [id |-> << last.touch_id >>]
        /\ \A other \in TouchRequests :
               (slot(other) = Unwrap(reading).slot) <=> (other.touch_id = last.touch_id)

C34_Witness ==
    /\ pc = "read"
    /\ last.type = "TouchUp"
    /\ last.touch_id = 1
    /\ Unwrap(reading).slot = slot([type |-> "TouchDown", device |-> 1, touch_id |-> 1,
                                    x |-> 1, y |-> 0])
    /\ Unwrap(reading).slot /= slot([type |-> "TouchDown", device |-> 1, touch_id |-> 0,
                                     x |-> 1, y |-> 0])

\* the bitmask under which the session advertises the capability of an interface
AdvertisedMask(interface) ==
    LET k == CHOOSE k \in DOMAIN SenderStateSent :
                 /\ SenderStateSent[k].msg = "capability"
                 /\ SenderStateSent[k].interface = interface
    IN SenderStateSent[k].mask

\* C35: the bit the Bind handler tests for the device of a capability is the
\* bit the session advertises that capability under: a Bind of exactly the
\* advertised bit of a capability the handler has a device for, its interface
\* negotiated, adds one device, and that device has this capability.
C35_AdvertisedBitBinds ==
    (last.type = "Bind" /\ ~OutOfRange(last.capabilities) /\ phase = "session") =>
        \A cap \in DOMAIN CapInterface :
            (/\ last.capabilities = AdvertisedMask(CapInterface[cap])
             /\ CapInterface[cap] \in interfaces)
            => /\ created = 1
               /\ DevicesAdded[1].capabilities = {cap}

\* C36: whenever a Bind is handled the seat is there, allocated by the
\* Connected event: the session is entered only with the seat, the seat
\* stays, and no Bind ends in the panic of the seat lookup.
C36_SeatBeforeBind ==
    /\ phase = "session" => IsSome(seat)
    /\ last.type = "Bind" =>
           /\ IsSome(seat)
           /\ Unwrap(seat).name = "default"
           /\ phase \in {"session", "removed"}

C36_Witness ==
    /\ last.type = "Bind"
    /\ last.capabilities = KeyboardBit
    /\ phase = "session"
    /\ IsSome(seat)
    /\ created = 1

\* C37: every entry of negotiated_interfaces is an interface of the table
\* with a version from 1 to the version of the table, and a Finish does not
\* make a session when the last InterfaceVersion of a mandatory interface
\* had version 0.
C37_NegotiatedVersionsPositive ==
    /\ \A i \in DOMAIN negotiated_interfaces :
           /\ i \in DOMAIN SERVER_INTERFACES
           /\ negotiated_interfaces[i] >= 1
           /\ negotiated_interfaces[i] <= SERVER_INTERFACES[i]
    /\ (last.type = "Finish" /\ result = "Sender") =>
           \A m \in ConnectionObjects(sent) :
               \A k \in 1 .. (m - 1) :
                   sent[k].msg = "interface_versions" =>
                       \A e \in sent[k].entries : e[2] >= 1

\* the keymap messages among msgs
KeymapMessages(msgs) == { k \in DOMAIN msgs : msgs[k].msg = "keymap" }

\* C38: a Bind whose bitmask has a bit outside the range 0x7e adds no device
\* and sends no keymap, whatever valid bits of negotiated capabilities the
\* bitmask has as well: the devices of the seat and their keymaps are what
\* they were before the request.
C38_RejectedBindAtomic ==
    [][ (/\ phase = "session"
         /\ last'.type = "Bind"
         /\ OutOfRange(last'.capabilities)) =>
            /\ devices' = devices
            /\ keymaps' = keymaps
            /\ created' = 0
            /\ Cardinality(KeymapMessages(sent')) = Cardinality(KeymapMessages(sent))
            /\ phase' = "removed" ]_vars

C38_Witness ==
    /\ last.type = "Bind"
    /\ last.capabilities = KeyboardBit + 1
    /\ "ei_keyboard" \in interfaces
    /\ phase = "removed"
    /\ created = 0
    /\ Len(devices) = 1
    /\ keymaps = << 1 >>

\* C39: whatever requests the handshake state is given, more than one Finish
\* among them, it returns a session at most once (one seat is announced) and
\* allocates the connection object, id 0, at most once.
C39_OneSession ==
    /\ Cardinality(MessagesOf("seat")) <= 1
    /\ Cardinality(ConnectionObjects(sent)) <= 1

====
